---- MODULE Spec2Model ----
(***************************************************************************)
(* Model of test_fixed/main.py: a harness that reads fp_tests.txt and      *)
(* fp_answers.txt, builds one test record per pair of lines, runs          *)
(* EXECUTABLE_NAME once per record, compares its stripped standard output  *)
(* with the expected answer, tallies the outcome per TestType and prints a *)
(* report.                                                                 *)
(*                                                                         *)
(* Text is modelled at two levels.  A string whose characters matter (an   *)
(* answer, the child's output) is a sequence of one-character strings.  A  *)
(* line of the tests file is the sequence of the tokens that               *)
(* x.strip().split(" ") yields for it; a blank (whitespace-only) line      *)
(* yields the single empty token.                                          *)
(***************************************************************************)
EXTENDS Integers, Sequences, FiniteSets, TLC

\* ------------------------------------------------------------------ bounds
\* longest tests / answers file (in lines) of the general specification
MaxLines == 3
\* longest argument vector of the argument specification
MaxArgs == 2
\* longest standard output of the child in the run_test specification
MaxOutLen == 4

\* --------------------------------------------------------------- constants
EXECUTABLE_NAME == "./a.out"
\* main prints the failing test numbers of a type only below this count
FailListLimit == 15

\* the members of TestType, in definition (iteration) order
TestType == <<"PRINT", "ADD", "SUB", "MUL", "DIV">>

TestTypes == {TestType[k] : k \in 1..Len(TestType)}

None == "None"

\* TestType.from_str
from_str(x) ==
    CASE x \in {"+", "a"} -> "ADD"
      [] x \in {"-", "s"} -> "SUB"
      [] x \in {"*", "m"} -> "MUL"
      [] x \in {"/", "d"} -> "DIV"
      [] OTHER -> "PRINT"

\* ------------------------------------------------------------------ text
SP == " "
NL == "\n"
\* a byte that is no valid UTF-8
INVALID == "0xFF"

\* the characters str.strip() removes
Whitespace == {SP, NL}

RECURSIVE lstrip(_)
lstrip(s) ==
    IF s # <<>> /\ Head(s) \in Whitespace THEN lstrip(Tail(s)) ELSE s

RECURSIVE rstrip(_)
rstrip(s) ==
    IF s # <<>> /\ s[Len(s)] \in Whitespace
    THEN rstrip(SubSeq(s, 1, Len(s) - 1))
    ELSE s

\* strip with a slip: only the leading whitespace goes
strip_LeadingOnly(s) == lstrip(s)

\* str.strip()
strip(s) == rstrip(lstrip(s))

\* ' '.join(args): the tokens with one space between neighbours
RECURSIVE join(_)
join(args) ==
    IF Len(args) <= 1 THEN args
    ELSE <<Head(args), SP>> \o join(Tail(args))

\* the empty token: x.strip().split(" ") of a whitespace-only line is [""]
BLANK == <<"">>

\* a whitespace-only line: the empty token (a line of tokens) or nothing
\* but whitespace characters (a line of characters)
IsBlankLine(l) == l = BLANK \/ strip(l) = <<>>

\* f.read().strip().split("\n") on a file given as its lines: the leading
\* and the trailing whitespace-only lines go with the strip; an
\* all-whitespace file yields the one line `empty`
RECURSIVE DropLeading(_)
DropLeading(f) ==
    IF f # <<>> /\ IsBlankLine(Head(f)) THEN DropLeading(Tail(f)) ELSE f

RECURSIVE DropTrailing(_)
DropTrailing(f) ==
    IF f # <<>> /\ IsBlankLine(f[Len(f)])
    THEN DropTrailing(SubSeq(f, 1, Len(f) - 1))
    ELSE f

StripSplit(f, empty) ==
    LET s == DropTrailing(DropLeading(f))
    IN  IF s = <<>> THEN <<empty>> ELSE s

\* line 108: tests_raw
ReadTestsRaw(f) == StripSplit(f, BLANK)

\* line 111: answers, each line stripped
ReadAnswers(f) ==
    LET s == StripSplit(f, <<>>)
    IN  [k \in 1..Len(s) |-> strip(s[k])]

Min(a, b) == IF a < b THEN a ELSE b

\* test_from_arg; data[2] of a line of fewer than three tokens raises
\* IndexError, reported by TestFromArgRaises
TestFromArgRaises(data) == Len(data) < 3

\* test_from_arg with a slip: the record keeps the 0-based index
test_from_arg_ZeroBased(i, data, ans) ==
    IF Len(data) = 3
    THEN [cls |-> "TestPrint", i |-> i, args |-> data, ans |-> ans,
          type |-> "PRINT"]
    ELSE [cls |-> "TestOperation", i |-> i, args |-> data, ans |-> ans,
          type |-> from_str(data[3])]

test_from_arg(i, data, ans) ==
    IF Len(data) = 3
    THEN [cls |-> "TestPrint", i |-> i + 1, args |-> data, ans |-> ans,
          type |-> "PRINT"]
    ELSE [cls |-> "TestOperation", i |-> i + 1, args |-> data, ans |-> ans,
          type |-> from_str(data[3])]

\* zip(tests_raw, answers) stops at the shorter list
ZipLen(tests_raw, answers) == Min(Len(tests_raw), Len(answers))

\* line 113
BuildRaises(tests_raw, answers) ==
    \E k \in 1..ZipLen(tests_raw, answers) : TestFromArgRaises(tests_raw[k])

BuildTests(tests_raw, answers) ==
    [k \in 1..ZipLen(tests_raw, answers) |->
        test_from_arg(k - 1, tests_raw[k], answers[k])]

\* lines 115-117
IsOfType(x, t) == x.type = t

GroupByType(unsorted) ==
    [t \in TestTypes |-> SelectSeq(unsorted, LAMBDA x : IsOfType(x, t))]

\* run_test once the child has exited with `out` on its standard output:
\* lines 68-71
run_test(test, out) ==
    LET data == strip(out)
    IN  [result |-> data = test.ans, data |-> data]

\* ParseArg with a slip: the first selector wins
ParseArg_FirstSelector(st, arg) ==
    CASE arg = "-q" -> [st EXCEPT !.quiet = TRUE]
      [] arg = "-s" -> [st EXCEPT !.single_fail = TRUE]
      [] arg \in {"+", "a", "-", "s", "*", "m", "/", "d", "p"}
            /\ st.test_type = "None" ->
            [st EXCEPT !.test_type = from_str(arg)]
      [] OTHER -> st

\* lines 121-130: the loop over sys.argv[1:]
ParseArg(st, arg) ==
    CASE arg = "-q" -> [st EXCEPT !.quiet = TRUE]
      [] arg = "-s" -> [st EXCEPT !.single_fail = TRUE]
      [] arg \in {"+", "a", "-", "s", "*", "m", "/", "d", "p"} ->
            [st EXCEPT !.test_type = from_str(arg)]
      [] OTHER -> st

RECURSIVE ParseArgv(_, _)
ParseArgv(st, args) ==
    IF args = <<>> THEN st
    ELSE ParseArgv(ParseArg(st, Head(args)), Tail(args))

\* f"{x:.2f}" of failed / n * 100, in hundredths of a percent: the nearest
\* hundredth, a tie going to the even one.  (failed / n * 100 is computed
\* in binary floating point; a tie needs 32 to divide n, and for the n of
\* this model that do, 32 and 64, the quotient is exact.)
Percent(failed, n) ==
    LET q == (failed * 10000) \div n
        r == (failed * 10000) % n
    IN  IF 2 * r > n \/ (2 * r = n /\ q % 2 = 1) THEN q + 1 ELSE q

\* ListedTests with a slip: the numbers are listed up to the limit included
ListedTests_UpToLimit(bad) ==
    IF Len(bad) <= FailListLimit THEN [k \in 1..Len(bad) |-> bad[k].i] ELSE <<>>

\* the test numbers printed under a type: lines 147-149
ListedTests(bad) ==
    IF Len(bad) < FailListLimit THEN [k \in 1..Len(bad) |-> bad[k].i] ELSE <<>>

\* lines 141-150: one type's section of the report
ReportSection(res, ntests) ==
    [type |-> res.type,
     successful |-> res.good,
     failed |-> Len(res.bad),
     failed_percent |-> Percent(Len(res.bad), ntests),
     listed |-> ListedTests(res.bad)]

RECURSIVE SumGood(_)
SumGood(rs) == IF rs = <<>> THEN 0 ELSE Head(rs).good + SumGood(Tail(rs))

RECURSIVE SumBad(_)
SumBad(rs) == IF rs = <<>> THEN 0 ELSE Len(Head(rs).bad) + SumBad(Tail(rs))

NoTotal == <<>>

\* lines 152-159
ReportTotal(rs) ==
    IF Len(rs) > 1
    THEN [successful |-> SumGood(rs),
          failed |-> SumBad(rs),
          failed_percent |-> Percent(SumBad(rs), SumGood(rs) + SumBad(rs))]
    ELSE NoTotal

\* PrintsFailure with a slip: -q is ignored
PrintsFailure_Always(q, sf) == TRUE

\* line 89: whether the failure line of a failed test is printed
PrintsFailure(q, sf) == ~q \/ sf

\* line 90: the failure line
FailureLine(test, data) == <<"TEST", test.i, join(test.args), data, test.ans>>

\* line 100: the closing line of run_tests
RanLine(n, type, g, b) == <<"Ran", n, type, g, Len(b)>>

\* line 95: what is piped to xclip
ClipboardText(test) == <<EXECUTABLE_NAME, SP>> \o join(test.args)

\* StopsRun with a slip: -s is ignored
StopsRun_Never(result, sf) == FALSE

\* line 93: whether the run ends after this test
StopsRun(result, sf) == ~result /\ sf

\* AddGood with a slip: every test counts as good
AddGood_Always(g, result) == g + 1

\* line 84: good += result
AddGood(g, result) == IF result THEN g + 1 ELSE g

\* lines 86-87: bad.append(test) when the test failed
AddBad(b, test, result) == IF result THEN b ELSE Append(b, test)

\* ------------------------------------------------------------------ state
VARIABLES
    pc,             \* where main is
    tests_file,     \* fp_tests.txt, as its lines
    answers_file,   \* fp_answers.txt, as its lines
    argv,           \* sys.argv[1:]
    tests_unsorted, \* line 113
    tests,          \* line 115: the records of each type
    quiet, single_fail, test_type,
    pending,        \* the types main has still to hand to run_tests
    idx, good, bad, last_print,   \* the locals of the running run_tests
    results,        \* line 119, in insertion order
    stdout,         \* the failure lines and closing lines printed
    report,         \* the results report, once printed
    clipboard,      \* what xclip received
    exit_status,    \* the status the process ended with
    runs,           \* the tests handed to run_test so far, with the verdict
    rt_pc, rt_ans, rt_ret,        \* run_test on its own: position, answer, result
    child,          \* the child: state, exit status, output still to write
    pipe_out, pipe_err            \* the bytes in the child's two pipes

mvars == <<pc, tests_file, answers_file, argv, tests_unsorted, tests, quiet,
           single_fail, test_type, pending, idx, good, bad, last_print,
           results, stdout, report, clipboard, exit_status, runs>>

rvars == <<rt_pc, rt_ans, rt_ret, child, pipe_out, pipe_err>>

vars == <<mvars, rvars>>

NoReport == <<>>

Running == -1

\* run_test on its own is not in use
RunTestIdle ==
    /\ rt_pc = "idle"
    /\ rt_ans = <<>>
    /\ rt_ret = None
    /\ child = None
    /\ pipe_out = <<>>
    /\ pipe_err = <<>>

\* main about to start on the given files and arguments
MainInit(inputs) ==
    /\ \E inp \in inputs :
          /\ tests_file = inp.tests
          /\ answers_file = inp.answers
          /\ argv = inp.argv
    /\ pc = "load"
    /\ tests_unsorted = <<>>
    /\ tests = [t \in TestTypes |-> <<>>]
    /\ quiet = FALSE
    /\ single_fail = FALSE
    /\ test_type = None
    /\ pending = <<>>
    /\ idx = 0
    /\ good = 0
    /\ bad = <<>>
    /\ last_print = TRUE
    /\ results = <<>>
    /\ stdout = <<>>
    /\ report = NoReport
    /\ clipboard = None
    /\ exit_status = Running
    /\ runs = <<>>
    /\ RunTestIdle

\* an uncaught exception: the traceback is printed and the status is 1
Raise(what) ==
    /\ pc' = what
    /\ exit_status' = 1

\* lines 105-119
LoadTests ==
    /\ pc = "load"
    /\ LET tests_raw == ReadTestsRaw(tests_file)
           answers == ReadAnswers(answers_file)
       IN  IF BuildRaises(tests_raw, answers)
           THEN /\ Raise("IndexError in test_from_arg")
                /\ UNCHANGED <<tests_unsorted, tests>>
           ELSE /\ tests_unsorted' = BuildTests(tests_raw, answers)
                /\ tests' = GroupByType(BuildTests(tests_raw, answers))
                /\ pc' = "args"
                /\ UNCHANGED exit_status
    /\ UNCHANGED <<tests_file, answers_file, argv, quiet, single_fail,
                   test_type, pending, idx, good, bad, last_print, results,
                   stdout, report, clipboard, runs, rvars>>

\* lines 121-130
ParseArgs ==
    /\ pc = "args"
    /\ LET st == ParseArgv([quiet |-> FALSE, single_fail |-> FALSE,
                            test_type |-> None], argv)
       IN  /\ quiet' = st.quiet
           /\ single_fail' = st.single_fail
           /\ test_type' = st.test_type
    /\ pc' = "select"
    /\ UNCHANGED <<tests_file, answers_file, argv, tests_unsorted, tests,
                   pending, idx, good, bad, last_print, results, stdout,
                   report, clipboard, exit_status, runs, rvars>>

\* lines 133-136: the types run_tests is to be called for, in order
TypesToRun(tt) == IF tt # None THEN <<tt>> ELSE TestType

SelectTests ==
    /\ pc = "select"
    /\ pending' = TypesToRun(test_type)
    /\ pc' = "call"
    /\ UNCHANGED <<tests_file, answers_file, argv, tests_unsorted, tests,
                   quiet, single_fail, test_type, idx, good, bad, last_print,
                   results, stdout, report, clipboard, exit_status, runs,
                   rvars>>

\* lines 134/137 and 75-78: run_tests is entered for the next type;
\* tests[0] of an empty list raises IndexError
EnterRunTests ==
    /\ pc = "call"
    /\ test_type' = Head(pending)
    /\ IF tests[Head(pending)] = <<>>
       THEN /\ Raise("IndexError in run_tests")
            /\ UNCHANGED <<idx, good, bad, last_print>>
       ELSE /\ idx' = 0
            /\ good' = 0
            /\ bad' = <<>>
            /\ last_print' = TRUE
            /\ pc' = "loop"
            /\ UNCHANGED exit_status
    /\ UNCHANGED <<tests_file, answers_file, argv, tests_unsorted, tests,
                   quiet, single_fail, pending, results, stdout, report,
                   clipboard, runs, rvars>>

\* what the child may write to its standard output in the specifications
\* of main (short enough for the pipe, valid UTF-8)
Outs == {<<"x">>, <<"y", NL>>}

\* lines 80-96: one iteration of the loop of run_tests.  (The progress
\* line of line 81 is overwritten on the terminal and is not recorded.)
RunOne ==
    /\ pc = "loop"
    /\ idx < Len(tests[Head(pending)])
    /\ \E out \in Outs :
          LET test == tests[Head(pending)][idx + 1]
              rv == run_test(test, out)
              shown == ~rv.result /\ PrintsFailure(quiet, single_fail)
              stop == StopsRun(rv.result, single_fail)
          IN  /\ runs' = Append(runs, [i |-> test.i, type |-> test.type,
                                       args |-> test.args,
                                       result |-> rv.result])
              /\ good' = AddGood(good, rv.result)
              /\ bad' = AddBad(bad, test, rv.result)
              /\ stdout' = IF shown
                           THEN Append(stdout, FailureLine(test, rv.data))
                           ELSE stdout
              /\ last_print' = ~shown
              /\ clipboard' = IF stop THEN ClipboardText(test) ELSE clipboard
              /\ exit_status' = IF stop THEN 1 ELSE exit_status
              /\ pc' = IF stop THEN "exit" ELSE pc
    /\ idx' = idx + 1
    /\ UNCHANGED <<tests_file, answers_file, argv, tests_unsorted, tests,
                   quiet, single_fail, test_type, pending, results, report,
                   rvars>>

\* lines 98-101 and results.update of lines 134/137
ReturnRunTests ==
    /\ pc = "loop"
    /\ idx = Len(tests[Head(pending)])
    /\ stdout' = Append(stdout, RanLine(Len(tests[Head(pending)]),
                                        Head(pending), good, bad))
    /\ results' = Append(results, [type |-> Head(pending), good |-> good,
                                   bad |-> bad])
    /\ pending' = Tail(pending)
    /\ pc' = IF Tail(pending) = <<>> THEN "report" ELSE "call"
    /\ UNCHANGED <<tests_file, answers_file, argv, tests_unsorted, tests,
                   quiet, single_fail, test_type, idx, good, bad, last_print,
                   report, clipboard, exit_status, runs, rvars>>

\* lines 139-159; len(tests[result_type]) is at least 1 for every type in
\* results, run_tests having read tests[0]
Report ==
    /\ pc = "report"
    /\ report' = [sections |-> [k \in 1..Len(results) |->
                      ReportSection(results[k], Len(tests[results[k].type]))],
                  total |-> ReportTotal(results)]
    /\ pc' = "done"
    /\ exit_status' = 0
    /\ UNCHANGED <<tests_file, answers_file, argv, tests_unsorted, tests,
                   quiet, single_fail, test_type, pending, idx, good, bad,
                   last_print, results, stdout, clipboard, runs, rvars>>

Next ==
    \/ LoadTests
    \/ ParseArgs
    \/ SelectTests
    \/ EnterRunTests
    \/ RunOne
    \/ ReturnRunTests
    \/ Report

\* ------------------------------------------------------------- the inputs
\* lines of the tests file: blank, a printing test, one test per operator
PrintLine == <<"f", "r", "n">>
OpLine(op) == <<"f", "r", op, "n">>

RECURSIVE SeqsUpTo(_, _)
SeqsUpTo(S, n) ==
    IF n = 0 THEN {<<>>}
    ELSE LET shorter == SeqsUpTo(S, n - 1)
         IN  shorter \cup {Append(q, x) : q \in shorter, x \in S}

TestLines == {BLANK, PrintLine, OpLine("+"), OpLine("s")}
AnswerLines == {<<>>, <<"x">>}
Argvs == {<<>>, <<"-q">>, <<"-s">>, <<"-q", "-s">>, <<"p">>, <<"-q", "a">>,
          <<"-s", "-">>}

Inputs ==
    {[tests |-> tf, answers |-> af, argv |-> av] :
        tf \in SeqsUpTo(TestLines, MaxLines),
        af \in SeqsUpTo(AnswerLines, MaxLines),
        av \in Argvs}

Init == MainInit(Inputs)

Spec == Init /\ [][Next]_vars

\* ------------------------------------------------- run_test, step by step
\* The child writes to two pipes (stdout = PIPE, stderr = PIPE, line 65).
\* A pipe holds PipeCap bytes; a write to a full pipe blocks until the
\* reader takes bytes out.  The capacity is scaled to the outputs of this
\* model: the longest output is one byte more than a pipe holds.
PipeCap == MaxOutLen - 1

\* bytes.decode("utf-8") raises UnicodeDecodeError on an invalid byte
Decodes(bytes) == \A k \in 1..Len(bytes) : bytes[k] # INVALID

\* line 65: Popen starts the child
Popen ==
    /\ rt_pc = "popen"
    /\ child' = [child EXCEPT !.state = "running"]
    /\ rt_pc' = "wait"
    /\ UNCHANGED <<rt_ans, rt_ret, pipe_out, pipe_err, mvars>>

\* the child writes the next byte of its standard output, or blocks in
\* the write when the pipe is full
ChildWriteOut ==
    /\ child.state = "running"
    /\ child.out # <<>>
    /\ IF Len(pipe_out) < PipeCap
       THEN /\ pipe_out' = Append(pipe_out, Head(child.out))
            /\ child' = [child EXCEPT !.out = Tail(child.out)]
       ELSE /\ child' = [child EXCEPT !.state = "blocked"]
            /\ UNCHANGED pipe_out
    /\ UNCHANGED <<rt_pc, rt_ans, rt_ret, pipe_err, mvars>>

\* the same for its standard error
ChildWriteErr ==
    /\ child.state = "running"
    /\ child.err # <<>>
    /\ IF Len(pipe_err) < PipeCap
       THEN /\ pipe_err' = Append(pipe_err, Head(child.err))
            /\ child' = [child EXCEPT !.err = Tail(child.err)]
       ELSE /\ child' = [child EXCEPT !.state = "blocked"]
            /\ UNCHANGED pipe_err
    /\ UNCHANGED <<rt_pc, rt_ans, rt_ret, pipe_out, mvars>>

\* the child has written everything and exits with its status
ChildExit ==
    /\ child.state = "running"
    /\ child.out = <<>>
    /\ child.err = <<>>
    /\ child' = [child EXCEPT !.state = "exited"]
    /\ UNCHANGED <<rt_pc, rt_ans, rt_ret, pipe_out, pipe_err, mvars>>

\* line 66: ps.wait() returns once the child has exited; nothing reads
\* either pipe before
Wait ==
    /\ rt_pc = "wait"
    /\ child.state = "exited"
    /\ rt_pc' = "read"
    /\ UNCHANGED <<rt_ans, rt_ret, child, pipe_out, pipe_err, mvars>>

\* lines 68-71: read to end of file, decode, strip, compare
Read ==
    /\ rt_pc = "read"
    /\ IF Decodes(pipe_out)
       THEN /\ rt_ret' = run_test([ans |-> rt_ans], pipe_out)
            /\ rt_pc' = "return"
       ELSE /\ rt_pc' = "UnicodeDecodeError"
            /\ UNCHANGED rt_ret
    /\ pipe_out' = <<>>
    /\ UNCHANGED <<rt_ans, child, pipe_err, mvars>>

NextRunTest ==
    \/ Popen
    \/ ChildWriteOut
    \/ ChildWriteErr
    \/ ChildExit
    \/ Wait
    \/ Read

\* main is not in use
MainIdle ==
    /\ pc = "idle"
    /\ tests_file = <<>>
    /\ answers_file = <<>>
    /\ argv = <<>>
    /\ tests_unsorted = <<>>
    /\ tests = [t \in TestTypes |-> <<>>]
    /\ quiet = FALSE
    /\ single_fail = FALSE
    /\ test_type = None
    /\ pending = <<>>
    /\ idx = 0
    /\ good = 0
    /\ bad = <<>>
    /\ last_print = TRUE
    /\ results = <<>>
    /\ stdout = <<>>
    /\ report = NoReport
    /\ clipboard = None
    /\ exit_status = Running
    /\ runs = <<>>

OutChars == {SP, NL, "x", INVALID}
ErrOuts == {<<>>, <<"e">>, [k \in 1..(PipeCap + 1) |-> "e"]}
RunTestAnswers == {<<>>, <<"x">>, <<"x", "x">>, <<"x", SP, "x">>, <<SP, "x">>}

\* run_test called for a test with any of the answers, on a child that
\* will write any of the outputs and exit with either status; `wrote`
\* keeps what the child's standard output is in all
InitRunTest ==
    /\ MainIdle
    /\ rt_pc = "popen"
    /\ rt_ans \in RunTestAnswers
    /\ rt_ret = None
    /\ \E out \in SeqsUpTo(OutChars, MaxOutLen), err \in ErrOuts,
          status \in {0, 1} :
          child = [state |-> "new", status |-> status, out |-> out,
                   err |-> err, wrote |-> out]
    /\ pipe_out = <<>>
    /\ pipe_err = <<>>

SpecRunTest == InitRunTest /\ [][NextRunTest]_vars

\* -------------------------------------------- the argument specification
\* every argument vector of up to MaxArgs words, on two fixed suites: one
\* with a test of every type, one without printing, multiplication and
\* division tests
ArgWords == {"-q", "-s", "+", "a", "-", "s", "*", "m", "/", "d", "p", "x"}

FullSuite == <<PrintLine, OpLine("+"), OpLine("-"), OpLine("*"), OpLine("/")>>
PartSuite == <<OpLine("a"), OpLine("-"), OpLine("+")>>

ArgInputs ==
    {[tests |-> tf, answers |-> [k \in 1..Len(tf) |-> <<"x">>], argv |-> av] :
        tf \in {FullSuite, PartSuite},
        av \in SeqsUpTo(ArgWords, MaxArgs)}

InitArgs == MainInit(ArgInputs)

SpecArgs == InitArgs /\ [][Next]_vars

\* ---------------------------------------------- the report specification
\* suites with a block of tests per type, in the order of TestType: one
\* test answered "x" (it passes or fails with the child's output), or
\* FailListLimit - 1 or FailListLimit tests answered "z", which the child
\* never prints
Rep(x, n) == [k \in 1..n |-> x]

LineOf(t) ==
    CASE t = "PRINT" -> PrintLine
      [] t = "ADD" -> OpLine("+")
      [] t = "SUB" -> OpLine("-")
      [] t = "MUL" -> OpLine("*")
      [] t = "DIV" -> OpLine("/")

BlockShapes ==
    {[n |-> 1, ans |-> <<"x">>],
     [n |-> FailListLimit - 1, ans |-> <<"z">>],
     [n |-> FailListLimit, ans |-> <<"z">>]}

RECURSIVE SuiteTests(_, _)
SuiteTests(shape, k) ==
    IF k > Len(TestType) THEN <<>>
    ELSE Rep(LineOf(TestType[k]), shape[TestType[k]].n)
            \o SuiteTests(shape, k + 1)

RECURSIVE SuiteAnswers(_, _)
SuiteAnswers(shape, k) ==
    IF k > Len(TestType) THEN <<>>
    ELSE Rep(shape[TestType[k]].ans, shape[TestType[k]].n)
            \o SuiteAnswers(shape, k + 1)

\* (quiet runs: the report does not depend on the failure lines)
SuiteArgvs == {<<"-q">>, <<"-q", "m">>, <<"p", "-q">>, <<"-s", "-q">>}

SuiteInputs ==
    {[tests |-> SuiteTests(shape, 1), answers |-> SuiteAnswers(shape, 1),
      argv |-> av] :
        shape \in [TestTypes -> BlockShapes], av \in SuiteArgvs}

InitSuite == MainInit(SuiteInputs)

SpecSuite == InitSuite /\ [][Next]_vars

\* ============================================================== claims
\* what the claims read off a state
Words(av) == {av[k] : k \in 1..Len(av)}

Selectors == {"+", "a", "-", "s", "*", "m", "/", "d", "p"}

HasSelector(av) == Words(av) \cap Selectors # {}

Ended == exit_status # Running

Numbers(ts) == [k \in 1..Len(ts) |-> ts[k].i]

RunsOf(t) == SelectSeq(runs, LAMBDA r : r.type = t)

RECURSIVE CountFailed(_)
CountFailed(rs) ==
    IF rs = <<>> THEN 0
    ELSE (IF Head(rs).result THEN 0 ELSE 1) + CountFailed(Tail(rs))

\* the numbers of all the tests, group after group in the order of TestType
RECURSIVE SuiteOrder(_)
SuiteOrder(k) ==
    IF k > Len(TestType) THEN <<>>
    ELSE Numbers(tests[TestType[k]]) \o SuiteOrder(k + 1)

\* C1: started without a selector (and without -s), once the records are
\* built the program ends only by reaching the results report, with every
\* record run exactly once: the groups in the order PRINT, ADD, SUB, MUL,
\* DIV, each in file order.
C1_EntireSuiteRun ==
    (/\ Ended
     /\ ~HasSelector(argv)
     /\ "-s" \notin Words(argv)
     /\ pc # "IndexError in test_from_arg")
    => (pc = "done" /\ Numbers(runs) = SuiteOrder(1))

\* the claimed clipboard text: the executable's name, then each argument
\* after one space
IsInvocationOf(c, args) ==
    /\ Len(c) = 2 * Len(args) + 1
    /\ c[1] = "./a.out"
    /\ \A k \in 1..Len(args) : c[2 * k] = " " /\ c[2 * k + 1] = args[k]

\* C2: with -s, a failed test is the last test run: the process has ended
\* with status 1, no report was printed, and the clipboard holds
\* "<EXECUTABLE_NAME> <args joined by single spaces>" of that test.
C2_StopsAfterFirstFailure ==
    "-s" \in Words(argv) =>
        \A k \in 1..Len(runs) :
            ~runs[k].result =>
                /\ k = Len(runs)
                /\ pc = "exit"
                /\ exit_status = 1
                /\ report = NoReport
                /\ clipboard # None
                /\ IsInvocationOf(clipboard, runs[k].args)

\* C2 witness: the run has stopped on a failure after a passed test, with
\* tests of the same type still not run.
C2_Witness ==
    /\ pc = "exit"
    /\ Len(runs) >= 2
    /\ idx < Len(tests[Head(pending)])

\* the tests of ts whose run, at the same position of rs, failed
RECURSIVE FailedTests(_, _)
FailedTests(ts, rs) ==
    IF ts = <<>> \/ rs = <<>> THEN <<>>
    ELSE (IF Head(rs).result THEN <<>> ELSE <<Head(ts)>>)
            \o FailedTests(Tail(ts), Tail(rs))

\* C3: without -s, inside run_tests good + len(bad) is the number of tests
\* run so far; and what run_tests returned for a type has good = the number
\* of its tests that passed, bad = the tests that failed, in the order run,
\* good + len(bad) = len(tests), every test of the list having been run.
C3_Tally ==
    "-s" \notin Words(argv) =>
        /\ pc = "loop" =>
              /\ good + Len(bad) = idx
              /\ idx = Len(RunsOf(Head(pending)))
        /\ \A k \in 1..Len(results) :
              LET r == results[k]
                  rs == RunsOf(r.type)
              IN  /\ Numbers(rs) = Numbers(tests[r.type])
                  /\ r.good = Len(rs) - CountFailed(rs)
                  /\ r.bad = FailedTests(tests[r.type], rs)
                  /\ r.good + Len(r.bad) = Len(tests[r.type])

\* C3 witness: run_tests returned after a first test that failed and a
\* later test that passed.
C3_Witness ==
    /\ "-s" \notin Words(argv)
    /\ \E k \in 1..Len(results) :
          /\ results[k].good >= 1
          /\ Len(results[k].bad) >= 1
          /\ ~RunsOf(results[k].type)[1].result

\* the type the claim gives each selector
SelectedType(w) ==
    CASE w \in {"+", "a"} -> "ADD"
      [] w \in {"-", "s"} -> "SUB"
      [] w \in {"*", "m"} -> "MUL"
      [] w \in {"/", "d"} -> "DIV"
      [] w = "p" -> "PRINT"

\* the last selector among the arguments
LastSelector(av) ==
    av[CHOOSE k \in 1..Len(av) :
          /\ av[k] \in Selectors
          /\ \A j \in (k + 1)..Len(av) : av[j] \notin Selectors]

\* C4: with a selector among the arguments, the type selected is the one
\* of the last selector, only tests of that type are run and reported;
\* with none ("-s" and "-q" are none) no type is selected and the first
\* test run is a printing test.
C4_SelectorRunsOnlyItsType ==
    IF HasSelector(argv)
    THEN LET t == SelectedType(LastSelector(argv))
         IN  /\ pc \notin {"load", "args"} => test_type = t
             /\ \A k \in 1..Len(runs) : runs[k].type = t
             /\ \A k \in 1..Len(results) : results[k].type = t
             /\ pc = "done" =>
                   /\ Len(report.sections) = 1
                   /\ report.sections[1].type = t
                   /\ Numbers(runs) = Numbers(tests[t])
    ELSE /\ pc = "select" => test_type = None
         /\ runs # <<>> => runs[1].type = "PRINT"

\* C4 witness: two selectors of different types were given and the report
\* is printed.
C4_Witness ==
    /\ pc = "done"
    /\ Len(argv) = 2
    /\ argv[1] \in Selectors
    /\ argv[2] \in Selectors
    /\ SelectedType(argv[1]) # SelectedType(argv[2])
    /\ runs # <<>>

IsFailureLine(l) == l[1] = "TEST"

\* C5: with -q and without -s no failure line is printed, and the tally and
\* the report count the tests by their outcome alone; with -q and -s the
\* failure line of the test the run stopped on is printed.
C5_Quiet ==
    "-q" \in Words(argv) =>
        IF "-s" \notin Words(argv)
        THEN /\ \A k \in 1..Len(stdout) : ~IsFailureLine(stdout[k])
             /\ \A k \in 1..Len(results) :
                   LET rs == RunsOf(results[k].type)
                   IN  /\ results[k].good = Len(rs) - CountFailed(rs)
                       /\ Len(results[k].bad) = CountFailed(rs)
                       /\ pc = "done" =>
                             /\ report.sections[k].successful
                                   = Len(rs) - CountFailed(rs)
                             /\ report.sections[k].failed = CountFailed(rs)
        ELSE pc = "exit" =>
                /\ stdout # <<>>
                /\ IsFailureLine(stdout[Len(stdout)])
                /\ stdout[Len(stdout)][2] = runs[Len(runs)].i

\* C5 witness: a quiet run without -s reached the report with two failed
\* tests.
C5_Witness ==
    /\ "-q" \in Words(argv)
    /\ "-s" \notin Words(argv)
    /\ pc = "done"
    /\ CountFailed(runs) >= 2

\* d is s without its leading and trailing whitespace
IsStripped(d, s) ==
    \E i \in 0..Len(s), j \in 0..Len(s) :
        /\ i <= j
        /\ d = SubSeq(s, i + 1, j)
        /\ \A k \in 1..i : s[k] \in {" ", "\n"}
        /\ \A k \in (j + 1)..Len(s) : s[k] \in {" ", "\n"}
        /\ d # <<>> => d[1] \notin {" ", "\n"} /\ d[Len(d)] \notin {" ", "\n"}

\* C6: when run_test returns, the test is reported as passed exactly when
\* the expected answer is the child's standard output without its leading
\* and trailing whitespace, whatever the exit status and the standard error.
C6_VerdictIsStrippedOutput ==
    rt_pc = "return" =>
        /\ rt_ret.result <=> IsStripped(rt_ans, child.wrote)
        /\ IsStripped(rt_ret.data, child.wrote)

\* C6 witness: run_test returned a pass for an output with whitespace on
\* both sides, from a child that wrote to its standard error and exited
\* with status 1.
C6_Witness ==
    /\ rt_pc = "return"
    /\ rt_ret.result
    /\ Len(child.wrote) = Len(rt_ans) + 2
    /\ rt_ans # <<>>
    /\ pipe_err # <<>>
    /\ child.status = 1

\* C9: run_test is never waiting for the child to exit while the child is
\* blocked writing to a full pipe.
C9_NoPipeDeadlock == ~(rt_pc = "wait" /\ child.state = "blocked")

\* what f.read().strip().split("\n") leaves of a file: the lines from its
\* first to its last line that is not blank, or one empty line
KeptLines(f, empty) ==
    LET full == {k \in 1..Len(f) : ~(f[k] = <<"">> \/ IsStripped(<<>>, f[k]))}
    IN  IF full = {} THEN <<empty>>
        ELSE LET lo == CHOOSE k \in full : \A j \in full : k <= j
                 hi == CHOOSE k \in full : \A j \in full : j <= k
             IN  SubSeq(f, lo, hi)

Built == pc \notin {"load", "IndexError in test_from_arg"}

\* the records pair line k with line k of the given lines and are numbered
\* by k, in the list and in the groups, and so are the numbers printed
NumberedBy(T, A) ==
    /\ Len(tests_unsorted) = (IF Len(T) < Len(A) THEN Len(T) ELSE Len(A))
    /\ \A k \in 1..Len(tests_unsorted) :
          /\ tests_unsorted[k].i = k
          /\ tests_unsorted[k].args = T[k]
          /\ IsStripped(tests_unsorted[k].ans, A[k])
    /\ \A t \in TestTypes : \A j \in 1..Len(tests[t]) :
          /\ tests[t][j].i \in 1..Len(tests_unsorted)
          /\ tests[t][j] = tests_unsorted[tests[t][j].i]
    /\ \A k \in 1..Len(stdout) :
          IsFailureLine(stdout[k]) =>
              /\ stdout[k][2] \in 1..Len(T)
              /\ IsInvocationOf(<<"./a.out", " ">> \o stdout[k][3],
                                T[stdout[k][2]])
    /\ pc = "done" =>
          \A k \in 1..Len(report.sections) :
              \A j \in 1..Len(report.sections[k].listed) :
                  LET i == report.sections[k].listed[j]
                  IN  /\ i \in 1..Len(T)
                      /\ \E r \in 1..Len(runs) :
                            /\ runs[r].i = i
                            /\ runs[r].args = T[i]
                            /\ ~runs[r].result

RECURSIVE SumOf(_, _)
SumOf(secs, field) ==
    IF secs = <<>> THEN 0 ELSE Head(secs)[field] + SumOf(Tail(secs), field)

\* p hundredths of a percent is failed / n * 100 to the nearest hundredth
IsPercentOf(p, failed, n) ==
    LET d == p * n - failed * 10000
    IN  2 * d <= n /\ -2 * d <= n

TypesRun == {runs[k].type : k \in 1..Len(runs)}

\* C8: in the report, the TOTAL section is there exactly when more than one
\* type was run; its figures are the sums of the per-type figures and add
\* up to the number of tests run; a type's percentage is failed / (number
\* of tests of the type) * 100; and the failing test numbers of a type are
\* listed exactly when fewer than 15 of its tests failed.
C8_Report ==
    pc = "done" =>
        /\ report.total # NoTotal <=> Cardinality(TypesRun) > 1
        /\ report.total # NoTotal =>
              /\ report.total.successful = SumOf(report.sections, "successful")
              /\ report.total.failed = SumOf(report.sections, "failed")
              /\ report.total.successful + report.total.failed = Len(runs)
        /\ \A k \in 1..Len(report.sections) :
              LET sec == report.sections[k]
                  n == Cardinality({j \in 1..Len(tests_unsorted) :
                                       tests_unsorted[j].type = sec.type})
              IN  /\ IsPercentOf(sec.failed_percent, sec.failed, n)
                  /\ sec.failed = CountFailed(RunsOf(sec.type))
                  /\ sec.successful + sec.failed = n
                  /\ IF sec.failed < 15
                     THEN sec.listed = Numbers(FailedTests(RunsOf(sec.type),
                                                           RunsOf(sec.type)))
                     ELSE sec.listed = <<>>

\* C8 witness: a report with a TOTAL section, one type with 14 failures, one
\* with 15 and one with a passed test.
C8_Witness ==
    /\ pc = "done"
    /\ report.total # NoTotal
    /\ \E a, b, c \in 1..Len(report.sections) :
          /\ report.sections[a].failed = 14
          /\ Len(report.sections[a].listed) = 14
          /\ report.sections[b].failed = 15
          /\ report.sections[c].successful = 1

====
